---- MODULE Spec2Model ----
(***************************************************************************)
(* A model of playwright_request.PlaywrightRequest: the batch call         *)
(* get(urls), the orchestrator _get_many and the per-URL page lifecycle    *)
(* _get_one, run as cooperative asyncio tasks.  A task step is the code    *)
(* that runs between two awaits: it is resumed with the answer of the      *)
(* driver call it was suspended on and runs up to the next driver call.    *)
(* The driver (playwright), the error detectors and the custom hook are    *)
(* the environment: every call of theirs answers or raises.                *)
(***************************************************************************)
EXTENDS Integers, Sequences, FiniteSets, TLC

(* ------------------------------ bounds --------------------------------- *)

\* the longest url list a get call is given
MaxUrls == 2
(* ---------------------- values of the environment ---------------------- *)

\* the urls a caller passes (duplicates allowed)
Urls == {"u1", "u2"}

\* statuses a navigation response reports
Statuses == {200, 404}

\* rendered markup is a string, modelled as a sequence of fragments; "" is << >>
Markups == { <<"pi">>, <<"noarticle", "pi", "captcha">> }

\* BrowserType members, and a value that is none of them
BrowserTypes == {"FIREFOX", "CHROMIUM", "WEBKIT", "OTHER"}

\* error_page_detectors: None, or a list of detectors
DetectorLists == { <<>>, <<"d1">>, <<"d2", "d1">> }

None == "None"

\* the fragments each detector reports
Patterns(d) ==
    IF d = "d1" THEN {"noarticle"} ELSE {"captcha", "noarticle"}

\* ErrorPageDetector.detect_errors(html): the matches, in match order
DetectErrors(d, html) ==
    SelectSeq(html, LAMBDA f : f \in Patterns(d))

\* the exception a failing call raises, and str(error)
Error(call) == [msg |-> call]

ErrorText ==
    [new_page |-> "Exception: new_page",
     route |-> "Exception: route",
     wait_for_timeout |-> "Exception: wait_for_timeout",
     goto |-> "Exception: goto",
     networkidle |-> "Exception: wait_for_load_state(networkidle)",
     domcontentloaded |-> "Exception: wait_for_load_state(domcontentloaded)",
     load |-> "Exception: wait_for_load_state()",
     content |-> "Exception: content",
     detect_errors |-> "Exception: detect_errors",
     extra_function |-> "Exception: extra_function",
     close |-> "Exception: close"]

Str(error) == ErrorText[error.msg]

(* ------------------------------- state --------------------------------- *)

VARIABLES
    cfg,            \* the constructor's arguments (self.browser_type, ...)
    urls,           \* self.urls
    responses,      \* self.responses
    htmls,          \* self.htmls
    status_codes,   \* self.status_codes
    outcome,        \* the last get call: "none", "running", "returned", "raised"
    pc,             \* position of the running get call
    browser,        \* the shared browser/context
    task,           \* task[i]: position and locals of _get_one for urls[i]
    future,         \* future[i]: the result of task i, when it has one
    order,          \* the order in which the tasks completed
    log,            \* log[i]: the calls task i made, with their answers
    ret,            \* how _get_many ends (see Return, Raise)
    page            \* page[i]: the page of task i

vars == <<cfg, urls, responses, htmls, status_codes, outcome, pc,
          browser, ret, task, future, order, log, page>>


(* ---------------------------- PlaywrightResponse ----------------------- *)

PlaywrightResponse(content, html, status_code, exception_list, error_list, extra_result) ==
    [content |-> content, html |-> html, status_code |-> status_code,
     exception_list |-> exception_list, error_list |-> error_list,
     extra_result |-> extra_result]

\* a fallback whose message went to error_list
exception_response_swapped ==
    PlaywrightResponse(<<>>, <<>>, -1, <<>>, <<"Exception">>, None)

exception_response ==
    PlaywrightResponse(<<>>, <<>>, -1, <<"Exception">>, <<>>, None)

\* a rendering that also asks for status 200 before it says OK
ResponseStrByStatus(r) ==
    LET text_ok == [status_code |-> r.status_code, verdict |-> "OK"]
        text_error == [status_code |-> r.status_code, verdict |-> "ERROR",
                       error_list |-> r.error_list]
    IN  IF r.status_code = 200 /\ r.html # <<>> /\ r.error_list = <<>>
           /\ r.exception_list = <<>>
        THEN text_ok
        ELSE text_error

\* PlaywrightResponse.__str__: "<status OK>" or "<status ERROR> error_list";
\* a str or a list is true when it is not empty
ResponseStr(r) ==
    LET text_ok == [status_code |-> r.status_code, verdict |-> "OK"]
        text_error == [status_code |-> r.status_code, verdict |-> "ERROR",
                       error_list |-> r.error_list]
    IN  IF r.html # <<>> /\ ~(r.error_list # <<>>) /\ ~(r.exception_list # <<>>)
        THEN text_ok
        ELSE text_error

\* isinstance(x, PlaywrightResponse)
IsResponse(x) == "content" \in DOMAIN x

(* ------------------------------ asyncio -------------------------------- *)

Pending == [kind |-> "pending"]
Result(value) == [kind |-> "result", value |-> value]
Raised(error) == [kind |-> "exception", error |-> error]

IsDone(f) == f.kind # "pending"

\* how _get_many ends: not yet, with a raise, or returning the responses
NoReturn == [kind |-> "none"]
Raise == [kind |-> "raise"]
Return(value) == [kind |-> "return", value |-> value]

\* a gather called without return_exceptions
ReturnExceptionsOff == FALSE

\* gather(..., return_exceptions=True)
ReturnExceptions == TRUE

\* gather is over: every task is done, or (without return_exceptions) one raised
GatherOver(fut) ==
    \/ \A i \in DOMAIN fut : IsDone(fut[i])
    \/ ~ReturnExceptions /\ \E i \in DOMAIN fut : fut[i].kind = "exception"

\* an orchestrator that raises again an exception found among the results
GatherReraises(fut) == \E i \in DOMAIN fut : fut[i].kind = "exception"

\* gather raises the first exception of a task unless it returns exceptions
GatherRaises(fut) ==
    ~ReturnExceptions /\ \E i \in DOMAIN fut : fut[i].kind = "exception"

\* a gather that hands the results back in the order the tasks completed
GatherAsCompleted(fut, ord) ==
    [k \in DOMAIN fut |->
        IF fut[ord[k]].kind = "result" THEN fut[ord[k]].value ELSE fut[ord[k]].error]

\* what gather returns: the results (or exceptions) of the tasks, in the
\* order the tasks were given
Gather(fut, ord) ==
    [i \in DOMAIN fut |->
        IF fut[i].kind = "result" THEN fut[i].value ELSE fut[i].error]

\* x if isinstance(x, PlaywrightResponse) else exception_response()
Coerce(x) == IF IsResponse(x) THEN x ELSE exception_response

(* ------------------------------- Init ---------------------------------- *)

Configs ==
    [browser_type : BrowserTypes,
     route : BOOLEAN,
     await_for_networkidle : BOOLEAN,
     await_for_doom : BOOLEAN,
     await_for_load_state : BOOLEAN,
     delay : BOOLEAN,
     error_page_detectors : DetectorLists,
     hook : BOOLEAN]

Config(browser_type, route, networkidle, doom, load_state, delay, detectors, hook) ==
    [browser_type |-> browser_type,
     route |-> route,
     await_for_networkidle |-> networkidle,
     await_for_doom |-> doom,
     await_for_load_state |-> load_state,
     delay |-> delay,
     error_page_detectors |-> detectors,
     hook |-> hook]

\* the configurations the batches of several urls are run under: those the
\* repository's tests construct, one with every other option switched on,
\* and one with an engine that is not recognized
BatchConfigs ==
    { Config("FIREFOX", TRUE, FALSE, FALSE, FALSE, FALSE, <<>>, FALSE),
      Config("CHROMIUM", TRUE, FALSE, FALSE, FALSE, FALSE, <<>>, FALSE),
      Config("WEBKIT", TRUE, FALSE, FALSE, FALSE, FALSE, <<>>, FALSE),
      Config("FIREFOX", TRUE, TRUE, FALSE, TRUE, FALSE, <<>>, FALSE),
      Config("FIREFOX", FALSE, FALSE, FALSE, FALSE, FALSE, <<"d1">>, FALSE),
      Config("CHROMIUM", FALSE, FALSE, TRUE, FALSE, TRUE, <<"d2", "d1">>, TRUE),
      Config("OTHER", FALSE, FALSE, FALSE, FALSE, FALSE, <<>>, FALSE) }

\* the url lists of a batch, and those of at most one url
UrlLists == UNION { [1..n -> Urls] : n \in 0..MaxUrls }
OneUrlLists == { <<>> } \cup { <<u>> : u \in Urls }

\* a requester as its constructor leaves it, for a configuration of C
Constructed(C) ==
    /\ cfg \in C
    /\ urls = <<>>
    /\ responses = <<>>
    /\ htmls = <<>>
    /\ status_codes = <<>>
    /\ outcome = "none"
    /\ pc = "idle"
    /\ browser = "none"
    /\ ret = NoReturn
    /\ task = <<>>
    /\ future = <<>>
    /\ order = <<>>
    /\ log = <<>>
    /\ page = <<>>

(* ------------------------ get and _get_many ---------------------------- *)

\* get(us): self.urls = us, then asyncio.run(self._get_many(us))
Get(us) ==
    /\ pc = "idle"
    /\ urls' = us
    /\ outcome' = "running"
    /\ pc' = "launch"
    /\ browser' = "none"
    /\ ret' = NoReturn
    /\ task' = <<>>
    /\ future' = <<>>
    /\ order' = <<>>
    /\ log' = <<>>
    /\ page' = <<>>
    /\ UNCHANGED <<cfg, responses, htmls, status_codes>>

\* the if/elif chain over self.browser_type: a recognized engine is launched
\* (and may fail to); otherwise `browser` stays unbound and the next
\* statement raises
Launch ==
    /\ pc = "launch"
    /\ \E ok \in BOOLEAN :
        IF cfg.browser_type \in {"FIREFOX", "CHROMIUM", "WEBKIT"} /\ ok
        THEN /\ browser' = "launched"
             /\ pc' = "new_context"
             /\ ret' = ret
        ELSE /\ browser' = IF cfg.browser_type \in {"FIREFOX", "CHROMIUM", "WEBKIT"}
                            THEN "launch_raised"
                            ELSE "unbound"
             /\ pc' = "exit"
             /\ ret' = Raise
    /\ UNCHANGED <<cfg, urls, responses, htmls, status_codes, outcome,
                   task, future, order, log, page>>

\* context = await browser.new_context(), then one task per url
NewContext ==
    /\ pc = "new_context"
    /\ \E ok \in BOOLEAN :
        IF ok
        THEN /\ browser' = "context"
             /\ pc' = "gather"
             /\ ret' = ret
             /\ task' = [i \in 1..Len(urls) |->
                           [pc |-> "new_page", url |-> urls[i]]]
             /\ future' = [i \in 1..Len(urls) |-> Pending]
             /\ log' = [i \in 1..Len(urls) |-> <<>>]
             /\ page' = [i \in 1..Len(urls) |-> "none"]
        ELSE /\ pc' = "exit"
             /\ ret' = Raise
             /\ UNCHANGED <<browser, task, future, log, page>>
    /\ UNCHANGED <<cfg, urls, responses, htmls, status_codes, outcome,
                   order>>

\* await asyncio.gather(*tasks, return_exceptions=True), then the fallback
\* substitution
GatherDone ==
    /\ pc = "gather"
    /\ GatherOver(future)
    /\ ret' = IF GatherRaises(future)
              THEN Raise
              ELSE Return([i \in DOMAIN future |->
                              Coerce(Gather(future, order)[i])])
    /\ pc' = "exit"
    /\ UNCHANGED <<cfg, urls, responses, htmls, status_codes, outcome,
                   browser, task, future, order, log, page>>

\* leaving `async with async_playwright()`, then the rest of get: a raise
\* leaves get at asyncio.run; otherwise the responses are stored.  asyncio.run
\* cancels whatever task is still pending when its main coroutine is over.
Exit ==
    /\ pc = "exit"
    /\ browser' = IF browser \in {"launch_raised", "unbound"}
                   THEN browser
                   ELSE "closed"
    /\ pc' = "idle"
    /\ task' = [i \in DOMAIN task |->
                  IF IsDone(future[i])
                  THEN task[i]
                  ELSE [pc |-> "cancelled", url |-> task[i].url]]
    /\ IF ret = Raise
       THEN /\ outcome' = "raised"
            /\ UNCHANGED <<responses, htmls, status_codes>>
       ELSE /\ outcome' = "returned"
            /\ responses' = ret.value
            /\ htmls' = [i \in DOMAIN ret.value |-> ret.value[i].html]
            /\ status_codes' = [i \in DOMAIN ret.value |->
                                  ret.value[i].status_code]
    /\ UNCHANGED <<cfg, urls, ret, future, order, log, page>>


(* ------------------------------ _get_one ------------------------------- *)

\* the event loop runs the tasks while asyncio.run has not returned
LoopRunning == pc \in {"gather", "exit"}

AtCall(i, call) ==
    /\ LoopRunning
    /\ i \in DOMAIN task
    /\ task[i].pc = call

\* the call, whether it answered, and what it answered (None: nothing kept)
Logged(i, call, ok, val) ==
    [log EXCEPT ![i] = Append(@, [call |-> call, ok |-> ok, val |-> val])]

\* a task that is over keeps no locals
Over(t) == [pc |-> "done", url |-> t.url]

\* the task is over with a value: `return PlaywrightResponse(...)`
Finish(i, response) ==
    /\ future' = [future EXCEPT ![i] = Result(response)]
    /\ task' = [task EXCEPT ![i] = Over(@)]
    /\ order' = Append(order, i)

\* the task is over with an exception no handler of _get_one caught
Escape(i, error) ==
    /\ future' = [future EXCEPT ![i] = Raised(error)]
    /\ task' = [task EXCEPT ![i] = Over(@)]
    /\ order' = Append(order, i)

\* a lifecycle that goes from goto straight to the extraction
AfterGotoSkipsWaits == "content"

\* the stage that follows each load-state wait, by the await_for_* flags
AfterLoadState == "content"
AfterDoom == IF cfg.await_for_load_state THEN "load" ELSE AfterLoadState
AfterNetworkidle == IF cfg.await_for_doom THEN "domcontentloaded" ELSE AfterDoom
AfterGoto == IF cfg.await_for_networkidle THEN "networkidle" ELSE AfterNetworkidle

\* status_code = 500; exception_list = []; then the delay, if configured
BeforeGoto(t) ==
    [pc |-> IF cfg.delay THEN "wait_for_timeout" ELSE "goto",
     url |-> t.url,
     status_code |-> 500,
     exception_list |-> <<>>]

\* a new_page failure response that drops the message
NewPageFailedSilent(error) ==
    PlaywrightResponse(<<>>, <<>>, -1, <<>>, <<>>, None)

\* the response returned when new_page raised
NewPageFailed(error) ==
    PlaywrightResponse(<<>>, <<>>, -1, <<Str(error)>>, <<>>, None)

\* an except clause that keeps only the last message
OverwriteError(exception_list, error) == <<Str(error)>>

\* exception_list.append(str(error))
AppendError(exception_list, error) == Append(exception_list, Str(error))

\* a new_page whose failure is recorded like that of goto, the lifecycle
\* going on without a page
NewPageContinues(i) ==
    /\ AtCall(i, "new_page")
    /\ \E ok \in BOOLEAN :
        /\ log' = Logged(i, "new_page", ok, None)
        /\ page' = [page EXCEPT ![i] = IF ok THEN "open" ELSE @]
        /\ task' = [task EXCEPT ![i] =
                      IF cfg.route /\ ok
                      THEN [@ EXCEPT !.pc = "route"]
                      ELSE [BeforeGoto(@) EXCEPT
                              !.exception_list =
                                  IF ok THEN @ ELSE <<Str(Error("new_page"))>>]]
        /\ UNCHANGED <<future, order>>
    /\ UNCHANGED <<cfg, urls, responses, htmls, status_codes, outcome,
                   pc, browser, ret>>

\* 1. page = await context.new_page()
NewPage(i) ==
    /\ AtCall(i, "new_page")
    /\ \E ok \in BOOLEAN :
        /\ log' = Logged(i, "new_page", ok, None)
        /\ IF ok
           THEN /\ page' = [page EXCEPT ![i] = "open"]
                /\ task' = [task EXCEPT ![i] =
                              IF cfg.route
                              THEN [@ EXCEPT !.pc = "route"]
                              ELSE BeforeGoto(@)]
                /\ UNCHANGED <<future, order>>
           ELSE /\ Finish(i, NewPageFailed(Error("new_page")))
                /\ UNCHANGED page
    /\ UNCHANGED <<cfg, urls, responses, htmls, status_codes, outcome,
                   pc, browser, ret>>

\* 2.1 await page.route("**/*", ...), outside any try
Route(i) ==
    /\ AtCall(i, "route")
    /\ \E ok \in BOOLEAN :
        /\ log' = Logged(i, "route", ok, None)
        /\ IF ok
           THEN /\ task' = [task EXCEPT ![i] = BeforeGoto(@)]
                /\ UNCHANGED <<future, order>>
           ELSE Escape(i, Error("route"))
    /\ UNCHANGED <<cfg, urls, responses, htmls, status_codes, outcome,
                   pc, browser, ret, page>>

\* await page.wait_for_timeout(timeout=rnd), outside any try
WaitForTimeout(i) ==
    /\ AtCall(i, "wait_for_timeout")
    /\ \E ok \in BOOLEAN :
        /\ log' = Logged(i, "wait_for_timeout", ok, None)
        /\ IF ok
           THEN /\ task' = [task EXCEPT ![i].pc = "goto"]
                /\ UNCHANGED <<future, order>>
           ELSE Escape(i, Error("wait_for_timeout"))
    /\ UNCHANGED <<cfg, urls, responses, htmls, status_codes, outcome,
                   pc, browser, ret, page>>

\* 2.2 response = await page.goto(...); status_code = response.status
GotoOk(i, status) ==
    /\ AtCall(i, "goto")
    /\ log' = Logged(i, "goto", TRUE, [url |-> task[i].url, status |-> status])
    /\ task' = [task EXCEPT ![i].status_code = status, ![i].pc = AfterGoto]
    /\ UNCHANGED <<cfg, urls, responses, htmls, status_codes, outcome,
                   pc, browser, ret, future, order, page>>

\* an except clause appending to one exception_list shared by all the tasks
GotoRaisesShared(i) ==
    /\ AtCall(i, "goto")
    /\ log' = Logged(i, "goto", FALSE, [url |-> task[i].url])
    /\ task' = [j \in DOMAIN task |->
                  LET t == IF j = i THEN [task[j] EXCEPT !.pc = AfterGoto]
                                    ELSE task[j]
                  IN  IF "exception_list" \in DOMAIN t
                      THEN [t EXCEPT !.exception_list =
                                        AppendError(@, Error("goto"))]
                      ELSE t]
    /\ UNCHANGED <<cfg, urls, responses, htmls, status_codes, outcome,
                   pc, browser, ret, future, order, page>>

\* 2.2 goto raised, or returned no response so that response.status raised
\* inside the same try: the except clause
GotoRaises(i) ==
    /\ AtCall(i, "goto")
    /\ log' = Logged(i, "goto", FALSE, [url |-> task[i].url])
    /\ task' = [task EXCEPT
                  ![i].exception_list = AppendError(@, Error("goto")),
                  ![i].pc = AfterGoto]
    /\ UNCHANGED <<cfg, urls, responses, htmls, status_codes, outcome,
                   pc, browser, ret, future, order, page>>

\* 3. the three load-state waits, each in its own try
WaitForLoadState(i, state, next) ==
    /\ AtCall(i, state)
    /\ \E ok \in BOOLEAN :
        /\ log' = Logged(i, state, ok, None)
        /\ task' = [task EXCEPT
                      ![i].exception_list =
                          IF ok THEN @ ELSE AppendError(@, Error(state)),
                      ![i].pc = next]
    /\ UNCHANGED <<cfg, urls, responses, htmls, status_codes, outcome,
                   pc, browser, ret, future, order, page>>

WaitNetworkidle(i) == WaitForLoadState(i, "networkidle", AfterNetworkidle)
WaitDoom(i) == WaitForLoadState(i, "domcontentloaded", AfterDoom)
WaitLoadState(i) == WaitForLoadState(i, "load", AfterLoadState)


\* the log entry of one call error_detector.detect_errors(html)
DetectCall(detector, html, error_list) ==
    [call |-> "detect_errors", ok |-> TRUE,
     val |-> [detector |-> detector, html |-> html, error_list |-> error_list]]

\* the state of the loop before its first round
NothingDetected == [total_error_list |-> <<>>, error_flag |-> FALSE, calls |-> <<>>]

\* a loop that stops at the first detector that fires
RECURSIVE DetectLoopBreaks(_, _, _)
DetectLoopBreaks(detectors, html, acc) ==
    IF detectors = <<>>
    THEN acc
    ELSE LET error_list == DetectErrors(Head(detectors), html)
             next == [total_error_list |-> acc.total_error_list \o error_list,
                      error_flag |-> acc.error_flag \/ error_list # <<>>,
                      calls |-> Append(acc.calls,
                                       DetectCall(Head(detectors), html, error_list))]
         IN  IF error_list # <<>>
             THEN next
             ELSE DetectLoopBreaks(Tail(detectors), html, next)

\* 5. the loop over the detectors: total_error_list and error_flag (and the
\* calls it makes)
RECURSIVE DetectLoop(_, _, _)
DetectLoop(detectors, html, acc) ==
    IF detectors = <<>>
    THEN acc
    ELSE LET error_list == DetectErrors(Head(detectors), html)
         IN  DetectLoop(Tail(detectors), html,
                        IF error_list # <<>>
                        THEN [total_error_list |-> acc.total_error_list \o error_list,
                              error_flag |-> TRUE,
                              calls |-> Append(acc.calls,
                                               DetectCall(Head(detectors), html,
                                                          error_list))]
                        ELSE [acc EXCEPT !.calls =
                                 Append(@, DetectCall(Head(detectors), html,
                                                      error_list))])

\* a detection step that leaves html as it is
FinalHtmlKept(error_flag, html) == html

\* html = "" if error_flag else html
FinalHtml(error_flag, html) == IF error_flag THEN <<>> ELSE html

\* a step 5 that also clears html when a navigation or wait failure was
\* recorded
DetectedOrFailed(t, original_html) ==
    LET found == DetectLoop(cfg.error_page_detectors, original_html,
                            NothingDetected)
    IN  [pc |-> "extra_function",
         url |-> t.url,
         status_code |-> t.status_code,
         exception_list |-> t.exception_list,
         original_html |-> original_html,
         html |-> FinalHtml(found.error_flag \/ t.exception_list # <<>>,
                            original_html),
         total_error_list |-> found.total_error_list]

\* the locals after steps 4 and 5, given the markup page.content() returned
Detected(t, original_html) ==
    LET found == DetectLoop(cfg.error_page_detectors, original_html,
                            NothingDetected)
    IN  [pc |-> "extra_function",
         url |-> t.url,
         status_code |-> t.status_code,
         exception_list |-> t.exception_list,
         original_html |-> original_html,
         html |-> IF cfg.error_page_detectors # <<>>
                  THEN FinalHtml(found.error_flag, original_html)
                  ELSE original_html,
         total_error_list |-> found.total_error_list]

\* extra_function without a function pointer: returns None, awaits nothing
NoHook(t) == [pc |-> "close", extra_result |-> None] @@ t

\* 4. original_html = await page.content(), outside any try, then step 5,
\* then the call of extra_function up to its await
Content(i) ==
    /\ AtCall(i, "content")
    /\ \/ \E markup \in Markups :
            /\ log' = [log EXCEPT ![i] =
                         Append(@, [call |-> "content", ok |-> TRUE,
                                    val |-> markup])
                            \o DetectLoop(cfg.error_page_detectors, markup,
                                          NothingDetected).calls]
            /\ task' = [task EXCEPT ![i] =
                          IF cfg.hook
                          THEN Detected(@, markup)
                          ELSE NoHook(Detected(@, markup))]
            /\ UNCHANGED <<future, order>>
       \/ \E markup \in Markups :
            /\ cfg.error_page_detectors # <<>>
            /\ log' = [log EXCEPT ![i] =
                         @ \o << [call |-> "content", ok |-> TRUE, val |-> markup],
                                 [call |-> "detect_errors", ok |-> FALSE,
                                  val |-> None] >>]
            /\ Escape(i, Error("detect_errors"))
       \/ /\ log' = Logged(i, "content", FALSE, None)
          /\ Escape(i, Error("content"))
    /\ UNCHANGED <<cfg, urls, responses, htmls, status_codes, outcome,
                   pc, browser, ret, page>>

\* extra_result = await self.extra_function(page=page, **self.extra_kwargs),
\* with a function pointer, outside any try
ExtraFunction(i) ==
    /\ AtCall(i, "extra_function")
    /\ \E ok \in BOOLEAN :
        /\ log' = Logged(i, "extra_function", ok, None)
        /\ IF ok
           THEN /\ task' = [task EXCEPT ![i] =
                              [pc |-> "close", extra_result |-> "extra"] @@ @]
                /\ UNCHANGED <<future, order>>
           ELSE Escape(i, Error("extra_function"))
    /\ UNCHANGED <<cfg, urls, responses, htmls, status_codes, outcome,
                   pc, browser, ret, page>>

\* await page.close(), outside any try, then return PlaywrightResponse(...)
Close(i) ==
    /\ AtCall(i, "close")
    /\ \E ok \in BOOLEAN :
        /\ log' = Logged(i, "close", ok, None)
        /\ IF ok
           THEN /\ page' = [page EXCEPT ![i] = "closed"]
                /\ Finish(i, PlaywrightResponse(task[i].original_html,
                                                task[i].html,
                                                task[i].status_code,
                                                task[i].exception_list,
                                                task[i].total_error_list,
                                                task[i].extra_result))
           ELSE /\ Escape(i, Error("close"))
                /\ UNCHANGED page
    /\ UNCHANGED <<cfg, urls, responses, htmls, status_codes, outcome,
                   pc, browser, ret>>

(* --------------------------- specification ----------------------------- *)

Step(i) ==
    \/ NewPage(i)
    \/ Route(i)
    \/ WaitForTimeout(i)
    \/ \E status \in Statuses : GotoOk(i, status)
    \/ GotoRaises(i)
    \/ WaitNetworkidle(i)
    \/ WaitDoom(i)
    \/ WaitLoadState(i)
    \/ Content(i)
    \/ ExtraFunction(i)
    \/ Close(i)

\* one get call runs to its end
Run ==
    \/ Launch
    \/ NewContext
    \/ \E i \in 1..MaxUrls : Step(i)
    \/ GatherDone
    \/ Exit

\* a fresh requester is given one batch of up to MaxUrls urls
Init == Constructed(BatchConfigs)

Next ==
    \/ \E us \in UrlLists : outcome = "none" /\ Get(us)
    \/ Run

Spec == Init /\ [][Next]_vars

\* a fresh requester, under any configuration, is given at most one url
InitPage == Constructed(Configs)

NextPage ==
    \/ \E us \in OneUrlLists : outcome = "none" /\ Get(us)
    \/ Run

SpecPage == InitPage /\ [][NextPage]_vars


(* ------------------------- what a task did ----------------------------- *)

\* task i made the call, and the call answered / raised
Called(i, call) == \E k \in DOMAIN log[i] : log[i][k].call = call
Answered(i, call) == \E k \in DOMAIN log[i] : log[i][k].call = call /\ log[i][k].ok
Failed(i, call) == \E k \in DOMAIN log[i] : log[i][k].call = call /\ ~log[i][k].ok

\* the names of the calls task i made, in order
Calls(i) == [k \in DOMAIN log[i] |-> log[i][k].call]

\* what the answered call returned
Answer(i, call) ==
    log[i][CHOOSE k \in DOMAIN log[i] : log[i][k].call = call /\ log[i][k].ok].val

\* the task ended by `return`, past the new_page stage
Assembled(i) == future[i].kind = "result" /\ Answered(i, "new_page")

Tasks == DOMAIN future

(* ------------------------------ claims --------------------------------- *)

\* C1: a batch call that returns gives exactly len(urls) outcomes, and outcome
\* i is what the lifecycle started for urls[i] produced (the canonical failure
\* outcome if it raised), whatever the order the tasks completed in.
C1_OutcomesFollowInputOrder ==
    outcome = "returned" =>
        /\ Len(responses) = Len(urls)
        /\ DOMAIN task = DOMAIN urls
        /\ \A i \in DOMAIN urls :
            /\ task[i].url = urls[i]
            /\ future[i].kind = "result" => responses[i] = future[i].value
            /\ future[i].kind = "exception" => responses[i] = exception_response

\* C1 witness: two tasks for the same url completed in reverse order with
\* different outcomes, one of them the new_page failure
C1_Witness ==
    /\ outcome = "returned"
    /\ Len(urls) = 2
    /\ urls[1] = urls[2]
    /\ order = <<2, 1>>
    /\ responses[1] # responses[2]
    /\ Failed(2, "new_page")

\* C2: when new_page fails for a url, no later call is made for that url, and
\* the returned outcome is status -1, empty content and html, the one message
\* str(error), an empty error list and no extra result.
C2_NewPageFailureShortCircuits ==
    \A i \in DOMAIN log :
        Failed(i, "new_page") =>
            /\ Calls(i) = <<"new_page">>
            /\ outcome = "returned" =>
                 responses[i] =
                    [content |-> <<>>, html |-> <<>>, status_code |-> -1,
                     exception_list |-> <<ErrorText.new_page>>,
                     error_list |-> <<>>, extra_result |-> None]

\* C2 witness: new_page failed under a configuration with every later stage
\* switched on, and the batch returned
C2_Witness ==
    /\ outcome = "returned"
    /\ cfg.route /\ cfg.delay /\ cfg.hook
    /\ cfg.await_for_networkidle /\ cfg.await_for_doom /\ cfg.await_for_load_state
    /\ cfg.error_page_detectors # <<>>
    /\ \E i \in DOMAIN log : Failed(i, "new_page")

\* the navigation and the load-state waits, in stage order
GuardedCalls == <<"goto", "networkidle", "domcontentloaded", "load">>

\* the load-state waits the configuration enables
EnabledWaits ==
    {c \in {"networkidle"} : cfg.await_for_networkidle}
        \cup {c \in {"domcontentloaded"} : cfg.await_for_doom}
        \cup {c \in {"load"} : cfg.await_for_load_state}

\* the messages of the guarded calls that failed for task i, in stage order
FailureMessages(i) ==
    LET failed == SelectSeq(GuardedCalls, LAMBDA c : Failed(i, c))
    IN  [k \in DOMAIN failed |-> ErrorText[failed[k]]]

\* C3: for a url whose page opened and whose lifecycle returned, every enabled
\* load-state wait was attempted whatever failed before it, and the exception
\* list holds exactly one message per failed call among goto and the waits, in
\* stage order (three messages when goto and two enabled waits all fail).
C3_OneMessagePerFailedCall ==
    outcome = "returned" =>
        \A i \in Tasks :
            Assembled(i) =>
                /\ Called(i, "goto")
                /\ \A c \in EnabledWaits : Called(i, c)
                /\ responses[i].exception_list = FailureMessages(i)

\* C3 witness: goto and the two enabled waits all failed, three messages
C3_Witness ==
    /\ outcome = "returned"
    /\ Cardinality(EnabledWaits) = 2
    /\ \E i \in Tasks :
        /\ Assembled(i)
        /\ Failed(i, "goto")
        /\ \A c \in EnabledWaits : Failed(i, c)
        /\ Len(responses[i].exception_list) = 3


\* C4: if the page opens and goto does not succeed, the returned status code
\* is -1; a status other than -1 is the status the navigation response
\* reported.
C4_StatusIsSentinelUnlessNavigated ==
    outcome = "returned" =>
        \A i \in Tasks :
            Answered(i, "new_page") =>
                /\ ~Answered(i, "goto") => responses[i].status_code = -1
                /\ responses[i].status_code # -1 =>
                      /\ Answered(i, "goto")
                      /\ responses[i].status_code = Answer(i, "goto").status

\* C5: the batch call raises only when the setup of the browser/context fails
\* (no context, no task); a failed call of any per-URL stage never makes it
\* raise and shows in that url's returned outcome as a non-empty exception
\* list.
C5_OnlySetupFailureRaises ==
    /\ ret = Raise =>
          /\ browser # "context"
          /\ future = <<>>
          /\ log = <<>>
    /\ outcome = "raised" => ret = Raise
    /\ \A i \in DOMAIN log :
          (\E k \in DOMAIN log[i] : ~log[i][k].ok) =>
              /\ outcome # "raised"
              /\ outcome = "returned" => responses[i].exception_list # <<>>

\* C5 witness: both tasks of a batch ended with an exception that escaped
\* _get_one, and the batch returned
C5_Witness ==
    /\ outcome = "returned"
    /\ Len(urls) = 2
    /\ \A i \in Tasks : future[i].kind = "exception"

\* C6: where a task ended with an escaped exception the batch holds the
\* canonical failure outcome (-1, "", "", ["Exception"], [], None); every
\* other position holds what its own task returned.
C6_FallbackAtThePosition ==
    outcome = "returned" =>
        \A i \in Tasks :
            /\ future[i].kind = "exception" =>
                  responses[i] =
                     [content |-> <<>>, html |-> <<>>, status_code |-> -1,
                      exception_list |-> <<"Exception">>,
                      error_list |-> <<>>, extra_result |-> None]
            /\ future[i].kind = "result" => responses[i] = future[i].value

\* C6 witness: the first task escaped at close, the second returned a
\* navigated page
C6_Witness ==
    /\ outcome = "returned"
    /\ Len(urls) = 2
    /\ Failed(1, "close")
    /\ Assembled(2)
    /\ responses[2].status_code = 200

\* C7: a returned outcome with a non-empty error list has empty html and, as
\* content, the non-empty markup page.content() returned; when exactly one
\* configured detector fires on that markup the error list is its output.
C7_ErrorsSuppressHtml ==
    outcome = "returned" =>
        \A i \in Tasks :
            responses[i].error_list # <<>> =>
                /\ responses[i].html = <<>>
                /\ Answered(i, "content")
                /\ responses[i].content = Answer(i, "content")
                /\ responses[i].content # <<>>
                /\ \A k \in DOMAIN cfg.error_page_detectors :
                      LET Out(n) == DetectErrors(cfg.error_page_detectors[n],
                                                 responses[i].content)
                      IN  (\A n \in DOMAIN cfg.error_page_detectors :
                              Out(n) # <<>> <=> n = k)
                          => responses[i].error_list = Out(k)

\* C7 witness: a fetch with no failed call, status 404, and one detector
\* that fired
C7_Witness ==
    /\ outcome = "returned"
    /\ Len(cfg.error_page_detectors) = 1
    /\ \E i \in Tasks :
        /\ responses[i].error_list # <<>>
        /\ responses[i].exception_list = <<>>
        /\ responses[i].status_code = 404

\* C8: a returned outcome with status code -1 has a non-empty exception list.
C8_SentinelHasAMessage ==
    outcome = "returned" =>
        \A i \in DOMAIN responses :
            responses[i].status_code = -1 => responses[i].exception_list # <<>>

\* C8 witness: status -1 came from the new_page failure
C8_Witness ==
    /\ outcome = "returned"
    /\ \E i \in Tasks :
        /\ Failed(i, "new_page")
        /\ responses[i].status_code = -1

\* the calls of _get_one whose failure no handler of _get_one catches
UnguardedCalls ==
    {"route", "wait_for_timeout", "content", "detect_errors", "extra_function",
     "close"}

\* the outputs of all the detectors on the markup, detector after detector
RECURSIVE AllErrors(_, _)
AllErrors(detectors, html) ==
    IF detectors = <<>>
    THEN <<>>
    ELSE DetectErrors(Head(detectors), html) \o AllErrors(Tail(detectors), html)

\* the outcome that the answers task i got from its own calls determine
OutcomeOf(i) ==
    IF Failed(i, "new_page")
    THEN [content |-> <<>>, html |-> <<>>, status_code |-> -1,
          exception_list |-> <<ErrorText.new_page>>,
          error_list |-> <<>>, extra_result |-> None]
    ELSE IF \E c \in UnguardedCalls : Failed(i, c)
    THEN [content |-> <<>>, html |-> <<>>, status_code |-> -1,
          exception_list |-> <<"Exception">>,
          error_list |-> <<>>, extra_result |-> None]
    ELSE LET markup == Answer(i, "content")
             errors == AllErrors(cfg.error_page_detectors, markup)
         IN  [content |-> markup,
              html |-> IF errors # <<>> THEN <<>> ELSE markup,
              status_code |-> IF Answered(i, "goto")
                              THEN Answer(i, "goto").status
                              ELSE 500,
              exception_list |-> FailureMessages(i),
              error_list |-> errors,
              extra_result |-> IF cfg.hook THEN "extra" ELSE None]

\* C9: a failure in one task never cancels or blocks a sibling and never
\* changes its outcome: no task is ever cancelled, a task that is not over can
\* always take its next step, and each returned outcome is the one the
\* answers to that task's own calls determine.
C9_SiblingsAreIsolated ==
    /\ \A i \in DOMAIN task : task[i].pc # "cancelled"
    /\ pc = "gather" =>
          \A i \in Tasks : ~IsDone(future[i]) => ENABLED Step(i)
    /\ outcome = "returned" =>
          \A i \in Tasks : responses[i] = OutcomeOf(i)

\* C9 witness: the first task failed goto and a wait and was over first; the
\* second then returned a clean page
C9_Witness ==
    /\ outcome = "returned"
    /\ Len(urls) = 2
    /\ order = <<1, 2>>
    /\ Failed(1, "goto")
    /\ Failed(1, "networkidle")
    /\ Assembled(2)
    /\ responses[2].exception_list = <<>>
    /\ responses[2].status_code = 200
    /\ responses[2].html # <<>>

\* C10: the shared browser/context is torn down only when every task of the
\* batch is over, with a result or with an exception.
C10_TeardownAfterAllTasks ==
    (pc = "exit" \/ browser = "closed") =>
        \A i \in DOMAIN task :
            /\ task[i].pc = "done"
            /\ IsDone(future[i])

\* C10 witness: the browser is closed after one task escaped and the other
\* returned
C10_Witness ==
    /\ browser = "closed"
    /\ Len(urls) = 2
    /\ \E i, j \in Tasks :
        /\ future[i].kind = "exception"
        /\ future[j].kind = "result"


\* C11: with no error detector configured, every outcome a lifecycle assembled
\* after extraction has html equal to content (the markup page.content()
\* returned), whatever the status code and the failures recorded.
C11_NoDetectorKeepsHtml ==
    (outcome = "returned" /\ cfg.error_page_detectors = <<>>) =>
        \A i \in Tasks :
            Assembled(i) =>
                /\ responses[i].html = responses[i].content
                /\ responses[i].content = Answer(i, "content")

\* C11 witness: no detector, goto and a wait failed, and html is the
\* extracted markup
C11_Witness ==
    /\ outcome = "returned"
    /\ cfg.error_page_detectors = <<>>
    /\ \E i \in Tasks :
        /\ Assembled(i)
        /\ Failed(i, "goto")
        /\ Failed(i, "load")
        /\ responses[i].html = <<"noarticle", "pi", "captcha">>

\* the engines the if/elif chain of _get_many recognizes
RecognizedBrowserTypes == {"FIREFOX", "CHROMIUM", "WEBKIT"}

\* C12: with a browser engine selector that is none of the recognized ones the
\* batch launches a default engine and goes on: the setup does not fail for
\* want of a browser.
C12_UnrecognizedEngineFallsBack ==
    cfg.browser_type \notin RecognizedBrowserTypes =>
        ~(browser = "unbound" /\ ret = Raise)


\* the status code _get_one holds once goto is over: the response's, or the
\* initial 500
ComputedStatus(i) ==
    IF Answered(i, "goto") THEN Answer(i, "goto").status ELSE 500

\* html as step 5 computes it from the extracted markup
ComputedHtml(markup) ==
    IF AllErrors(cfg.error_page_detectors, markup) # <<>> THEN <<>> ELSE markup

\* the returned outcome of task i holds the message of the failed call
Recorded(i, call) ==
    \E k \in DOMAIN responses[i].exception_list :
        responses[i].exception_list[k] = ErrorText[call]

\* C13: when attaching the route filter fails, the failure is recorded as a
\* message and the lifecycle goes on through navigation, extraction and
\* close, so the outcome carries the navigation status and the extracted
\* markup.
C13_RouteFailureIsRecorded ==
    outcome = "returned" =>
        \A i \in Tasks :
            Failed(i, "route") =>
                /\ Recorded(i, "route")
                /\ Called(i, "goto")
                /\ Called(i, "content")
                /\ Called(i, "close")
                /\ Answered(i, "goto") =>
                      responses[i].status_code = Answer(i, "goto").status
                /\ Answered(i, "content") =>
                      responses[i].content = Answer(i, "content")

\* C14: when the custom hook raises, the outcome keeps the status code,
\* content, html and error list computed before it, has no extra result and
\* one more message than navigation and the waits left; the page is still
\* closed.
C14_HookFailureIsCaught ==
    outcome = "returned" =>
        \A i \in Tasks :
            Failed(i, "extra_function") =>
                /\ Called(i, "close")
                /\ responses[i].status_code = ComputedStatus(i)
                /\ responses[i].content = Answer(i, "content")
                /\ responses[i].html = ComputedHtml(Answer(i, "content"))
                /\ responses[i].error_list =
                      AllErrors(cfg.error_page_detectors, Answer(i, "content"))
                /\ responses[i].extra_result = None
                /\ Len(responses[i].exception_list) = Len(FailureMessages(i)) + 1

\* C15: when closing the page fails, the failure is recorded and the outcome's
\* status code, content, html, error list and extra result are the values
\* computed before the close.
C15_CloseFailureKeepsOutcome ==
    outcome = "returned" =>
        \A i \in Tasks :
            Failed(i, "close") =>
                /\ Recorded(i, "close")
                /\ responses[i].status_code = ComputedStatus(i)
                /\ responses[i].content = Answer(i, "content")
                /\ responses[i].html = ComputedHtml(Answer(i, "content"))
                /\ responses[i].error_list =
                      AllErrors(cfg.error_page_detectors, Answer(i, "content"))
                /\ responses[i].extra_result = IF cfg.hook THEN "extra" ELSE None

\* C16: when reading the markup fails on an open page, the outcome has empty
\* content, a message for the extraction, and the status code and the
\* messages navigation and the waits left.
C16_ContentFailureIsRecorded ==
    outcome = "returned" =>
        \A i \in Tasks :
            Failed(i, "content") =>
                /\ responses[i].content = <<>>
                /\ Recorded(i, "content")
                /\ responses[i].status_code = ComputedStatus(i)
                /\ Len(responses[i].exception_list) = Len(FailureMessages(i)) + 1
                /\ SubSeq(responses[i].exception_list, 1, Len(FailureMessages(i)))
                      = FailureMessages(i)


\* the classification of an outcome: what its rendering says
Successful(r) == ResponseStr(r).verdict = "OK"

\* the outcome r and the outcomes that differ from it in html, error list or
\* exception list
Variants(r) ==
    { [r EXCEPT !.html = h, !.error_list = el, !.exception_list = xl] :
        h \in {r.html, <<>>, <<"pi">>},
        el \in {r.error_list, <<>>, <<"noarticle">>},
        xl \in {r.exception_list, <<>>, <<"Exception">>} }

\* C17: an outcome is classified successful exactly when its html is not
\* empty and its error list and exception list are empty; outcomes that agree
\* on these three fields are classified alike, whatever their status code and
\* extra result.
C17_SuccessIsHtmlAndNoErrors ==
    outcome = "returned" =>
        \A i \in DOMAIN responses :
            \A r \in Variants(responses[i]) :
                /\ Successful(r) <=>
                      (r.html # <<>> /\ r.error_list = <<>>
                         /\ r.exception_list = <<>>)
                /\ \A s \in Statuses \cup {-1, 500}, e \in {None, "extra"} :
                      Successful([r EXCEPT !.status_code = s,
                                           !.extra_result = e])
                         = Successful(r)

\* C17 witness: two returned outcomes with status 200 and 404 and the same
\* html, error list and exception list, both classified successful
C17_Witness ==
    /\ outcome = "returned"
    /\ Len(responses) = 2
    /\ responses[1].status_code = 200
    /\ responses[2].status_code = 404
    /\ responses[1].html = responses[2].html
    /\ Successful(responses[1])
    /\ Successful(responses[2])


\* the calls of _get_one in the order of its statements
StageOrder ==
    <<"new_page", "route", "wait_for_timeout", "goto", "networkidle",
      "domcontentloaded", "load", "content", "detect_errors", "extra_function",
      "close">>

Rank(call) == CHOOSE k \in DOMAIN StageOrder : StageOrder[k] = call

\* the calls the configuration enables
EnabledCalls ==
    {"new_page", "goto", "content", "close"}
        \cup EnabledWaits
        \cup {c \in {"route"} : cfg.route}
        \cup {c \in {"wait_for_timeout"} : cfg.delay}
        \cup {c \in {"detect_errors"} : cfg.error_page_detectors # <<>>}
        \cup {c \in {"extra_function"} : cfg.hook}

\* the calls of the detectors task i made, in order
DetectorRuns(i) == SelectSeq(log[i], LAMBDA e : e.call = "detect_errors")

\* C18: the calls made for a url follow the fixed order new_page, route,
\* delay, goto, the waits (networkidle, domcontentloaded, load), content, the
\* detectors, the hook, close; no call is made twice (a detector is called
\* once), no enabled stage is skipped on the way to a later one, and the hook
\* is called only after every enabled wait and every detector, before close.
C18_StagesInFixedOrder ==
    \A i \in DOMAIN log :
        /\ \A k, l \in DOMAIN log[i] :
              k < l =>
                 \/ Rank(log[i][k].call) < Rank(log[i][l].call)
                 \/ log[i][k].call = "detect_errors" /\ log[i][l].call = "detect_errors"
        /\ Len(DetectorRuns(i)) <= Len(cfg.error_page_detectors)
        /\ \A k \in DOMAIN log[i] :
              /\ log[i][k].call \in EnabledCalls
              /\ \A c \in EnabledCalls :
                    Rank(c) < Rank(log[i][k].call) => Called(i, c)
        /\ Called(i, "extra_function") =>
              /\ \A c \in EnabledWaits : Called(i, c)
              /\ Len(DetectorRuns(i)) = Len(cfg.error_page_detectors)
              /\ \A k \in DOMAIN log[i] :
                    log[i][k].call = "close" =>
                        \E h \in 1..(k - 1) : log[i][h].call = "extra_function"

\* C18 witness: a lifecycle with every stage enabled and two detectors went
\* through all its twelve calls
C18_Witness ==
    \E i \in DOMAIN log :
        /\ Len(log[i]) = 12
        /\ Answered(i, "extra_function")
        /\ Answered(i, "close")

\* C19: the error list of an assembled outcome is the concatenation, detector
\* after detector, of what each configured detector returned; every detector
\* was called once, in the configured order, also after an earlier one fired,
\* and each was given the markup page.content() returned.
C19_ErrorListIsAllDetectors ==
    outcome = "returned" =>
        \A i \in Tasks :
            Assembled(i) =>
                LET markup == Answer(i, "content")
                    runs == DetectorRuns(i)
                IN  /\ Len(runs) = Len(cfg.error_page_detectors)
                    /\ \A k \in DOMAIN runs :
                          /\ runs[k].ok
                          /\ runs[k].val.detector = cfg.error_page_detectors[k]
                          /\ runs[k].val.html = markup
                          /\ runs[k].val.error_list =
                                DetectErrors(cfg.error_page_detectors[k], markup)
                    /\ responses[i].error_list =
                          AllErrors(cfg.error_page_detectors, markup)

\* C19 witness: two detectors both fired on the same markup, the second one
\* after the first, and the error list holds the matches of both
C19_Witness ==
    /\ outcome = "returned"
    /\ cfg.error_page_detectors = <<"d2", "d1">>
    /\ \E i \in Tasks :
        /\ Assembled(i)
        /\ responses[i].error_list = <<"noarticle", "captcha", "noarticle">>

\* C20: every page opened for a url is closed exactly once by the time the
\* batch returns, whichever of route, delay, goto, the waits, content, the
\* detectors and the hook failed for that url.
C20_OpenedPagesAreClosed ==
    outcome = "returned" =>
        \A i \in Tasks :
            (Answered(i, "new_page") /\ ~Failed(i, "close")) =>
                /\ page[i] = "closed"
                /\ Len(SelectSeq(log[i], LAMBDA e : e.call = "close")) = 1

\* C21: whenever no get call is in progress, also after a get that raised in
\* the set-up of the browser or of the context, urls, responses, htmls and
\* status_codes have the same length, and htmls[i] and status_codes[i] are
\* the html and the status code of responses[i].
C21_StoredListsAgree ==
    pc = "idle" =>
        /\ Len(urls) = Len(responses)
        /\ Len(htmls) = Len(responses)
        /\ Len(status_codes) = Len(responses)
        /\ \A i \in DOMAIN responses :
              /\ htmls[i] = responses[i].html
              /\ status_codes[i] = responses[i].status_code

====
